---- MODULE Spec2Model ----
(***************************************************************************)
(* A model of mdwikify.py: the viewer install, the root index, the config  *)
(* file, the tree walk that generates per-directory index.md files and     *)
(* collects the navigation buffer, and the navigation file.                *)
(*                                                                         *)
(* Strings are sequences of ASCII code points, so that str.title(),        *)
(* str.replace(), str.endswith(), os.path.splitext() and list.sort() are   *)
(* computed the way Python computes them.  A path is the sequence of the   *)
(* names below the working directory; <<>> is the wiki root '.'.           *)
(* A document is the sequence of the lines written to it, one record per   *)
(* line (blank lines are left out).                                        *)
(***************************************************************************)
EXTENDS Integers, Sequences, FiniteSets, TLC

VARIABLES
    fs,           \* the filesystem: path -> [kind, content]
    enumOrder,    \* the order in which the filesystem enumerates names
    unreadable,   \* directories whose listing fails (no read permission)
    pc,           \* position of main()
    walkStack,    \* os.walk('.'): directories still to be listed
    root,         \* os.walk('.'): the directory whose subdirectories are handled
    alldirs,      \* os.walk('.'): subdirectories of root not yet handled
    writeBuffer,  \* main(): the navigation buffer
    rootFiles,    \* main(): list_md_files('.') not yet offered
    fsStart,      \* history: the filesystem when the current run started
    prompts,      \* history: the questions put to the operator in this run
    dlFailed,     \* history: the download of this run failed
    runs,         \* number of runs of main() started
    fnArg,        \* SpecFn: the string a pure function is applied to
    fnOut         \* SpecFn: its result

vars == <<fs, enumOrder, unreadable, pc, walkStack, root, alldirs, writeBuffer,
          rootFiles, fsStart, prompts, dlFailed, runs, fnArg, fnOut>>

----------------------------------------------------------------------------
(* Bounds *)

\* most entries (files and directories) of the initial tree
MaxEntries == 6
\* most runs of main() in a row
MaxRuns == 2
\* longest string the pure functions are applied to
MaxNameLen == 3

----------------------------------------------------------------------------
(* Strings *)

IndexMd      == <<105, 110, 100, 101, 120, 46, 109, 100>>
NavigationMd == <<110, 97, 118, 105, 103, 97, 116, 105, 111, 110, 46, 109, 100>>
ReadmeMd     == <<82, 69, 65, 68, 77, 69, 46, 109, 100>>
ConfigJson   == <<99, 111, 110, 102, 105, 103, 46, 106, 115, 111, 110>>
IndexHtml    == <<105, 110, 100, 101, 120, 46, 104, 116, 109, 108>>
MdwikiHtml   == <<109, 100, 119, 105, 107, 105, 46, 104, 116, 109, 108>>
MdwikiSlim   == <<109, 100, 119, 105, 107, 105, 45, 115, 108, 105, 109, 46, 104, 116, 109, 108>>
MdwikiDebug  == <<109, 100, 119, 105, 107, 105, 45, 100, 101, 98, 117, 103, 46, 104, 116, 109, 108>>
DotHtml      == <<46, 104, 116, 109, 108>>
zipName      == <<109, 100, 119, 105, 107, 105, 46, 122, 105, 112>>
DotMd        == <<46, 109, 100>>
SlashIndexMd == <<47, 105, 110, 100, 101, 120, 46, 109, 100>>
Dot          == <<46>>
Slash        == <<47>>
CategoriesH  == <<67, 97, 116, 101, 103, 111, 114, 105, 101, 115>>
PagesH       == <<80, 97, 103, 101, 115>>
CustomName   == <<72, 111, 109, 101>>

\* user content of the modelled trees
A_md      == <<97, 46, 109, 100>>
B_md      == <<66, 46, 109, 100>>
Beta      == <<98, 101, 116, 97>>
MyPage_md == <<109, 121, 95, 112, 97, 103, 101, 46, 109, 100>>
Alpha     == <<97, 108, 112, 104, 97>>
Sub       == <<83, 117, 98>>
C_md      == <<99, 46, 109, 100>>
Empty     == <<101, 109, 112, 116, 121>>
X_txt     == <<120, 46, 116, 120, 116>>

\* title=None, ignore=None
None == <<-1>>

wiki_title       == <<77, 121, 32, 87, 105, 107, 105>>
default_theme    == <<98, 111, 111, 116, 115, 116, 114, 97, 112>>
mdwiki_filenames == {MdwikiHtml, MdwikiSlim, MdwikiDebug, IndexHtml, wiki_title \o DotHtml}
included_md_files == {ReadmeMd, NavigationMd, IndexMd}

IsUpper(c) == c >= 65 /\ c <= 90
IsLower(c) == c >= 97 /\ c <= 122
IsCased(c) == IsUpper(c) \/ IsLower(c)
ToUpper(c) == IF IsLower(c) THEN c - 32 ELSE c
ToLower(c) == IF IsUpper(c) THEN c + 32 ELSE c

\* str.title(): a cased character is upper-cased when the character before it
\* is not cased (or there is none), and lower-cased otherwise
RECURSIVE TitleFrom(_, _, _)
TitleFrom(s, i, prevCased) ==
    IF i > Len(s) THEN <<>>
    ELSE <<IF ~IsCased(s[i]) THEN s[i]
           ELSE IF prevCased THEN ToLower(s[i]) ELSE ToUpper(s[i])>>
         \o TitleFrom(s, i + 1, IsCased(s[i]))

StrTitle(s) == TitleFrom(s, 1, FALSE)

\* str.replace(old, new) for single characters
StrReplace(s, old, new) == [i \in 1..Len(s) |-> IF s[i] = old THEN new ELSE s[i]]

StrEndsWith(s, suffix) ==
    /\ Len(s) >= Len(suffix)
    /\ SubSeq(s, Len(s) - Len(suffix) + 1, Len(s)) = suffix

\* Python's < on str: lexicographic by code point
RECURSIVE StrLess(_, _)
StrLess(a, b) ==
    IF b = <<>> THEN FALSE
    ELSE IF a = <<>> THEN TRUE
    ELSE IF Head(a) # Head(b) THEN Head(a) < Head(b)
    ELSE StrLess(Tail(a), Tail(b))

\* os.path.splitext(name)[0]: cut at the last dot, leading dots not counted
SplitExtRoot(s) ==
    LET dots == {i \in 1..Len(s) : s[i] = 46}
        last == IF dots = {} THEN 0 ELSE CHOOSE i \in dots : \A j \in dots : j <= i
        lead == \A j \in 1..last : s[j] = 46
    IN  IF last = 0 \/ lead THEN s ELSE SubSeq(s, 1, last - 1)

\* os.path.basename
BaseName(s) ==
    LET sl == {i \in 1..Len(s) : s[i] = 47}
        last == IF sl = {} THEN 0 ELSE CHOOSE i \in sl : \A j \in sl : j <= i
    IN  SubSeq(s, last + 1, Len(s))

titlify(dir) == StrReplace(StrTitle(dir), 95, 32)

\* list.insert keeping the list ascending, the step of list.sort()
RECURSIVE InsertSorted(_, _)
InsertSorted(x, list) ==
    IF list = <<>> THEN <<x>>
    ELSE IF StrLess(x, Head(list)) THEN <<x>> \o list
    ELSE <<Head(list)>> \o InsertSorted(x, Tail(list))

\* the list left in enumeration order
ListSortForgotten(list) == list

RECURSIVE SortFrom(_, _)
SortFrom(list, i) ==
    IF i > Len(list) THEN <<>> ELSE InsertSorted(list[i], SortFrom(list, i + 1))

ListSort(list) == SortFrom(list, 1)

----------------------------------------------------------------------------
(* The filesystem *)

Line(kind, text, target) == [kind |-> kind, text |-> text, target |-> target]

UserContent == <<Line("text", <<>>, <<>>)>>
OldContent  == <<Line("old", <<>>, <<>>)>>
ZipGood     == <<Line("zip", MdwikiHtml, <<>>)>>
ZipBad      == <<Line("zip", <<>>, <<>>)>>
ViewerHtml  == <<Line("html", <<>>, <<>>)>>

File(content) == [kind |-> "file", content |-> content]
Dir == [kind |-> "dir", content |-> <<>>]

isfile(F, p) == p \in DOMAIN F /\ F[p].kind = "file"
isdir(F, p)  == p \in DOMAIN F /\ F[p].kind = "dir"

\* open(p, 'w') ... write
WriteFile(F, p, content) ==
    [q \in DOMAIN F \cup {p} |-> IF q = p THEN File(content) ELSE F[q]]

RemoveFile(F, p) == [q \in DOMAIN F \ {p} |-> F[q]]

\* os.path.join('.', ...) of the names of p; '.' for the root
RECURSIVE PathStr(_)
PathStr(p) ==
    IF p = <<>> THEN Dot
    ELSE PathStr(SubSeq(p, 1, Len(p) - 1)) \o Slash \o p[Len(p)]

\* os.listdir(p), in the filesystem's enumeration order.  main() calls it only
\* on the root and on directories is_md_dir found Markdown in, which it could
\* list; where it could raise, the caller tests unreadable first.
listdir(F, p) == SelectSeq(enumOrder, LAMBDA n : (p \o <<n>>) \in DOMAIN F)

\* is_md_file(s), s naming the entry p
is_md_file(F, p, s) == isfile(F, p) /\ StrEndsWith(s, DotMd)

\* os.walk(top) with onerror=None: the (root, dirs, files) triples, top-down;
\* a directory whose listing fails is skipped, error and all
RECURSIVE WalkFrom(_, _)
WalkFrom(F, stack) ==
    IF stack = <<>> THEN <<>>
    ELSE LET top == Head(stack)
             names == listdir(F, top)
             dirs == SelectSeq(names, LAMBDA n : isdir(F, top \o <<n>>))
             files == SelectSeq(names, LAMBDA n : ~isdir(F, top \o <<n>>))
         IN  IF top \in unreadable THEN WalkFrom(F, Tail(stack))
             ELSE <<[root |-> top, dirs |-> dirs, files |-> files]>>
                  \o WalkFrom(F, [i \in 1..Len(dirs) |-> top \o <<dirs[i]>>] \o Tail(stack))

os_walk(F, top) == WalkFrom(F, <<top>>)

\* a directory counted for holding any file at all
is_md_dir_any_file(F, path, recursive) ==
    LET w == os_walk(F, path)
    IN  \E i \in 1..Len(w) : w[i].files # <<>>

\* is_md_dir(path, recursive); the caller has ensured os.path.isdir(path).
\* The non-recursive branch calls os.listdir, which raises on an unreadable
\* directory: it is only defined for readable ones.
is_md_dir(F, path, recursive) ==
    IF recursive
    THEN LET w == os_walk(F, path)
         IN  \E i \in 1..Len(w) : \E j \in 1..Len(w[i].files) :
                 is_md_file(F, w[i].root \o <<w[i].files[j]>>,
                            PathStr(w[i].root \o <<w[i].files[j]>>))
    ELSE \E n \in {m \in DOMAIN F : Len(m) = Len(path) + 1
                                    /\ SubSeq(m, 1, Len(path)) = path} :
             is_md_file(F, n, PathStr(n))

\* create_index: title = titlify(path) when none is given
IndexTitle(path, title) == IF title = None THEN titlify(path) ELSE title

\* create_index(path, title, ignore): the lines written to path/index.md
create_index(F, path, title, ignore) ==
    LET names == listdir(F, path)
        dirlist == SelectSeq(names, LAMBDA f :
                       /\ isdir(F, path \o <<f>>)
                       /\ is_md_dir(F, path \o <<f>>, TRUE)
                       /\ f \notin ignore)
        filelist == SelectSeq(names, LAMBDA f :
                       /\ is_md_file(F, path \o <<f>>, PathStr(path \o <<f>>))
                       /\ f \notin ignore)
        ds == ListSort(dirlist)
        fl == ListSort(filelist)
    IN  <<Line("h1", IndexTitle(PathStr(path), title), <<>>)>>
        \o (IF dirlist # <<>> /\ filelist # <<>>
            THEN <<Line("h2", CategoriesH, <<>>)>> ELSE <<>>)
        \o [i \in 1..Len(ds) |-> Line("item", titlify(ds[i]), ds[i] \o SlashIndexMd)]
        \o (IF dirlist # <<>> /\ filelist # <<>>
            THEN <<Line("h2", PagesH, <<>>)>> ELSE <<>>)
        \o [i \in 1..Len(fl) |->
               Line("item", titlify(SplitExtRoot(BaseName(fl[i]))), fl[i])]

\* create_config(): the file written to config.json
create_config(title) ==
    <<Line("json", IF title = None THEN wiki_title ELSE title, <<>>)>>

\* create_navigation(navlist): the lines written to navigation.md
create_navigation(navlist, title, theme) ==
    <<Line("h1", IF title = None THEN wiki_title ELSE title, <<>>)>>
    \o navlist
    \o <<Line("gimmick:Theme", <<>>, IF theme = None THEN default_theme ELSE theme),
         Line("gimmick:ThemeChooser", <<>>, <<>>)>>

\* list_md_files(dir) with the default ignore list; the names are tested
\* relative to the working directory, which is dir for the one call there is
list_md_files(F, dir) ==
    SelectSeq(listdir(F, dir), LAMBDA f :
        /\ is_md_file(F, dir \o <<f>>, f)
        /\ f \notin (included_md_files \cup mdwiki_filenames))

----------------------------------------------------------------------------
(* Initial states: a tree drawn from a fixed stock of entries.  The wiki    *)
(* root is readable, there is no directory tmp, and an mdwiki.zip lying    *)
(* there is a good archive holding mdwiki.html.                            *)

\* the entries a tree may hold
Stock ==
    {<<IndexMd>>, <<NavigationMd>>, <<ConfigJson>>, <<IndexHtml>>, <<zipName>>,
     <<A_md>>, <<B_md>>,
     <<Beta>>, <<Beta, IndexMd>>, <<Beta, MyPage_md>>, <<Beta, ReadmeMd>>,
     <<Alpha>>, <<Alpha, Sub>>, <<Alpha, Sub, C_md>>,
     <<Empty>>, <<Empty, X_txt>>}

StockDirs == {<<Beta>>, <<Alpha>>, <<Alpha, Sub>>, <<Empty>>}
StockOld  == {<<IndexMd>>, <<NavigationMd>>, <<ConfigJson>>, <<Beta, IndexMd>>}

Parent(p) == SubSeq(p, 1, Len(p) - 1)

\* every entry lies in a directory of the tree
Closed(S) == \A p \in S : Len(p) = 1 \/ Parent(p) \in S

\* the tree holding the entries S; an mdwiki.zip found there is a good archive
Tree(S) ==
    [p \in S \cup {<<>>} |->
        IF p = <<>> \/ p \in StockDirs THEN Dir
        ELSE IF p \in StockOld THEN File(OldContent)
        ELSE IF p = <<IndexHtml>> THEN File(ViewerHtml)
        ELSE IF p = <<zipName>> THEN File(ZipGood)
        ELSE File(UserContent)]

Trees ==
    {Tree(S) : S \in {T \in SUBSET Stock : Cardinality(T) <= MaxEntries /\ Closed(T)}}

\* two enumeration orders of the names, each the reverse of the other; the first
\* is not sorted: it lists beta before alpha and a.md before B.md
Enumeration ==
    <<Beta, IndexMd, ReadmeMd, A_md, Alpha, B_md, Empty, MyPage_md, NavigationMd,
      Sub, C_md, X_txt, ConfigJson, IndexHtml, zipName>>

Reverse(q) == [i \in 1..Len(q) |-> q[Len(q) + 1 - i]]

Init ==
    /\ fs \in Trees
    /\ enumOrder \in {Enumeration, Reverse(Enumeration)}
    /\ unreadable \in {{}} \cup {{p} : p \in {q \in DOMAIN fs : q # <<>> /\ fs[q].kind = "dir"}}
    /\ pc = "start"
    /\ walkStack = <<>>
    /\ root = <<>>
    /\ alldirs = <<>>
    /\ writeBuffer = <<>>
    /\ rootFiles = <<>>
    /\ fsStart = fs
    /\ prompts = <<>>
    /\ dlFailed = FALSE
    /\ runs = 1
    /\ fnArg = <<>>
    /\ fnOut = <<>>

----------------------------------------------------------------------------
(* main() *)

\* the artifact written whether it is there or not
MissingUnchecked(F, p) == TRUE

\* lines 204, 209, 214, 237: an artifact is written only where there is none
Missing(F, p) == ~isfile(F, p)

\* the depth counted without the - 1
DepthMiscounted(dirpath) == Len(dirpath) + 1

\* line 222: len(dirpath.split(os.sep)) - 1, dirpath = './a/b/...'
Depth(dirpath) == (Len(dirpath) + 1) - 1

\* the entry inserted in ascending order of its target
BufferAddSorted(buf, entry) ==
    LET k == Cardinality({i \in 1..Len(buf) : StrLess(buf[i].target, entry.target)})
    IN  SubSeq(buf, 1, k) \o <<entry>> \o SubSeq(buf, k + 1, Len(buf))

\* lines 231, 252: writeBuffer.append
BufferAdd(buf, entry) == Append(buf, entry)

Locals == <<walkStack, root, alldirs, writeBuffer, rootFiles>>
Fixed == <<enumOrder, unreadable, fsStart, runs, fnArg, fnOut>>

\* lines 182-190: look for the viewer, then for the archive
CheckViewer ==
    /\ pc = "start"
    /\ pc' = IF \E f \in mdwiki_filenames : isfile(fs, <<f>>) THEN "rootindex"
             ELSE IF ~isfile(fs, <<zipName>>) THEN "download"
             ELSE "unzip"
    /\ UNCHANGED <<fs, prompts, dlFailed, Locals, Fixed>>

\* lines 149-156: download(url, zipName).  Any exception is printed and
\* swallowed; a failed download leaves no file (urlopen failed) or a
\* truncated one (the copy failed).
Download ==
    /\ pc = "download"
    /\ \E outcome \in {"ok", "nofile", "truncated"} :
        /\ fs' = IF outcome = "ok" THEN WriteFile(fs, <<zipName>>, ZipGood)
                 ELSE IF outcome = "truncated" THEN WriteFile(fs, <<zipName>>, ZipBad)
                 ELSE fs
        /\ dlFailed' = (outcome # "ok")
    /\ pc' = "unzip"
    /\ UNCHANGED <<prompts, Locals, Fixed>>

\* lines 193-201: zipfile.ZipFile(zipName) raises when the archive is missing
\* or is no zip file, and nothing catches it; otherwise mdwiki.html becomes
\* index.html and tmp and the archive are removed
Unzip ==
    /\ pc = "unzip"
    /\ IF ~isfile(fs, <<zipName>>) \/ fs[<<zipName>>].content # ZipGood
       THEN /\ pc' = "aborted"
            /\ fs' = fs
       ELSE /\ pc' = "rootindex"
            /\ fs' = RemoveFile(WriteFile(fs, <<IndexHtml>>, ViewerHtml), <<zipName>>)
    /\ UNCHANGED <<prompts, dlFailed, Locals, Fixed>>

\* lines 204-206
RootIndex ==
    /\ pc = "rootindex"
    /\ fs' = IF Missing(fs, <<IndexMd>>)
             THEN WriteFile(fs, <<IndexMd>>,
                            create_index(fs, <<>>, wiki_title, included_md_files))
             ELSE fs
    /\ pc' = "config"
    /\ UNCHANGED <<prompts, dlFailed, Locals, Fixed>>

\* lines 209-211
Config ==
    /\ pc = "config"
    /\ fs' = IF Missing(fs, <<ConfigJson>>)
             THEN WriteFile(fs, <<ConfigJson>>, create_config(None))
             ELSE fs
    /\ pc' = "navcheck"
    /\ UNCHANGED <<prompts, dlFailed, Locals, Fixed>>

\* lines 214-216: the whole walk happens only where navigation.md is missing
NavCheck ==
    /\ pc = "navcheck"
    /\ IF Missing(fs, <<NavigationMd>>)
       THEN /\ pc' = "walk"
            /\ walkStack' = << <<>> >>
       ELSE /\ pc' = "done"
            /\ walkStack' = <<>>
    /\ writeBuffer' = <<>>
    /\ UNCHANGED <<fs, prompts, dlFailed, root, alldirs, rootFiles, Fixed>>

\* line 216: os.walk('.') lists its next directory (skipping one it cannot
\* list); line 246 once there is none left
WalkNext ==
    /\ pc = "walk"
    /\ alldirs = <<>>
    /\ IF walkStack = <<>>
       THEN /\ pc' = "rootfiles"
            /\ rootFiles' = list_md_files(fs, <<>>)
            /\ UNCHANGED <<walkStack, alldirs>>
            /\ root' = <<>>
       ELSE LET top == Head(walkStack)
                names == listdir(fs, top)
                dirs == SelectSeq(names, LAMBDA n : isdir(fs, top \o <<n>>))
            IN  /\ pc' = "walk"
                /\ rootFiles' = rootFiles
                /\ IF top \in unreadable
                   THEN /\ walkStack' = Tail(walkStack)
                        /\ UNCHANGED <<root, alldirs>>
                   ELSE /\ walkStack' = [i \in 1..Len(dirs) |-> top \o <<dirs[i]>>]
                                        \o Tail(walkStack)
                        /\ root' = top
                        /\ alldirs' = dirs
    /\ UNCHANGED <<fs, prompts, dlFailed, writeBuffer, Fixed>>

\* lines 217-227: the next subdirectory d of root
ClassifyDir ==
    /\ pc = "walk"
    /\ alldirs # <<>>
    /\ LET dirpath == root \o <<Head(alldirs)>>
       IN  IF ~is_md_dir(fs, dirpath, TRUE)
           THEN /\ pc' = "walk"
                /\ alldirs' = Tail(alldirs)
           ELSE /\ pc' = IF dirpath \in unreadable THEN "aborted"
                         ELSE IF Depth(dirpath) = 1 THEN "ask"
                         ELSE "index"
                /\ alldirs' = alldirs
    /\ UNCHANGED <<fs, prompts, dlFailed, walkStack, root, writeBuffer, rootFiles, Fixed>>

\* lines 228-231: input_bool('Add directory ...')
AskDir ==
    /\ pc = "ask"
    /\ LET d == Head(alldirs)
       IN  \E answer \in BOOLEAN :
            /\ prompts' = Append(prompts, [kind |-> "dir", name |-> d, answer |-> answer])
            /\ writeBuffer' = IF answer
                              THEN BufferAdd(writeBuffer,
                                             Line("entry", titlify(d), d \o SlashIndexMd))
                              ELSE writeBuffer
    /\ pc' = "index"
    /\ UNCHANGED <<fs, dlFailed, walkStack, root, alldirs, rootFiles, Fixed>>

\* lines 237-239: create_index(dirpath, title), no ignore list
DirIndex ==
    /\ pc = "index"
    /\ LET d == Head(alldirs)
           dirpath == root \o <<d>>
       IN  fs' = IF Missing(fs, dirpath \o <<IndexMd>>)
                 THEN WriteFile(fs, dirpath \o <<IndexMd>>,
                                create_index(fs, dirpath, titlify(d), {}))
                 ELSE fs
    /\ alldirs' = Tail(alldirs)
    /\ pc' = "walk"
    /\ UNCHANGED <<prompts, dlFailed, walkStack, root, writeBuffer, rootFiles, Fixed>>

\* lines 247-252: the three questions about the next root file
AskFile ==
    /\ pc = "rootfiles"
    /\ rootFiles # <<>>
    /\ LET f == Head(rootFiles)
       IN  \E answer \in BOOLEAN, nameOk \in BOOLEAN :
            /\ prompts' = Append(prompts, [kind |-> "file", name |-> f, answer |-> answer])
            /\ writeBuffer' =
                  IF answer
                  THEN BufferAdd(writeBuffer,
                           Line("entry",
                                IF nameOk THEN StrTitle(SplitExtRoot(f)) ELSE CustomName,
                                f))
                  ELSE writeBuffer
    /\ rootFiles' = Tail(rootFiles)
    /\ UNCHANGED <<fs, pc, dlFailed, walkStack, root, alldirs, Fixed>>

\* lines 253-254
WriteNav ==
    /\ pc = "rootfiles"
    /\ rootFiles = <<>>
    /\ fs' = WriteFile(fs, <<NavigationMd>>, create_navigation(writeBuffer, None, None))
    /\ pc' = "done"
    /\ writeBuffer' = <<>>
    /\ UNCHANGED <<prompts, dlFailed, walkStack, root, alldirs, rootFiles, Fixed>>

\* the operator runs the script again
Rerun ==
    /\ pc = "done"
    /\ runs < MaxRuns
    /\ runs' = runs + 1
    /\ pc' = "start"
    /\ fsStart' = fs
    /\ prompts' = <<>>
    /\ dlFailed' = FALSE
    /\ UNCHANGED <<fs, enumOrder, unreadable, Locals, fnArg, fnOut>>

Next ==
    \/ CheckViewer
    \/ Download
    \/ Unzip
    \/ RootIndex
    \/ Config
    \/ NavCheck
    \/ WalkNext
    \/ ClassifyDir
    \/ AskDir
    \/ DirIndex
    \/ AskFile
    \/ WriteNav
    \/ Rerun

Spec == Init /\ [][Next]_vars

----------------------------------------------------------------------------
(* The pure functions, applied to every short string *)

\* a lower-case and an upper-case letter, underscore, hyphen, slash, space
Alphabet == {97, 66, 95, 45, 47, 32}

FnStrings == UNION {[1..n -> Alphabet] : n \in 0..MaxNameLen}

InitFn ==
    /\ fnArg \in FnStrings
    /\ fnOut = <<>>
    /\ pc = "fn"
    /\ fs = Tree({})
    /\ fsStart = fs
    /\ enumOrder = Enumeration
    /\ unreadable = {}
    /\ walkStack = <<>>
    /\ root = <<>>
    /\ alldirs = <<>>
    /\ writeBuffer = <<>>
    /\ rootFiles = <<>>
    /\ prompts = <<>>
    /\ dlFailed = FALSE
    /\ runs = 1

\* titlify(fnArg)
FnTitlify ==
    /\ pc = "fn"
    /\ fnOut' = titlify(fnArg)
    /\ pc' = "titlified"
    /\ UNCHANGED <<fs, prompts, dlFailed, Locals, enumOrder, unreadable, fsStart, runs, fnArg>>

\* create_index(fnArg) with no title: lines 64-65
FnIndexTitle ==
    /\ pc = "fn"
    /\ fnOut' = IndexTitle(fnArg, None)
    /\ pc' = "titled"
    /\ UNCHANGED <<fs, prompts, dlFailed, Locals, enumOrder, unreadable, fsStart, runs, fnArg>>

NextFn ==
    \/ FnTitlify
    \/ FnIndexTitle

SpecFn == InitFn /\ [][NextFn]_vars

----------------------------------------------------------------------------
(* Vocabulary of the properties *)

\* some Markdown file lies in p or below it, readable or not
HasMdBeneath(F, p) ==
    \E q \in DOMAIN F :
        /\ Len(q) > Len(p)
        /\ SubSeq(q, 1, Len(p)) = p
        /\ F[q].kind = "file"
        /\ StrEndsWith(q[Len(q)], DotMd)

DirsOf(F) == {p \in DOMAIN F : F[p].kind = "dir"}

\* the index.md files written in the current run
GeneratedIndexes ==
    {p \in DOMAIN fs \ {<<>>} :
        p[Len(p)] = IndexMd /\ isfile(fs, p) /\ ~isfile(fsStart, p)}

\* the operator was asked about the depth-1 directory d in the current run
PromptedDir(d) == \E i \in DOMAIN prompts : prompts[i].kind = "dir" /\ prompts[i].name = d

Accepted(kind, n) ==
    \E i \in DOMAIN prompts :
        prompts[i].kind = kind /\ prompts[i].name = n /\ prompts[i].answer

InBuffer(d) == \E i \in DOMAIN writeBuffer : writeBuffer[i].target = d \o SlashIndexMd

\* the walk of the current run went ahead: there was no navigation.md
WalkRan == ~isfile(fsStart, <<NavigationMd>>)

Artifacts(F) ==
    {p \in DOMAIN F \ {<<>>} :
        F[p].kind = "file" /\ p[Len(p)] \in {IndexMd, NavigationMd, ConfigJson}}

----------------------------------------------------------------------------
(* C1 *)

\* C1 as stated: a directory, the wiki root included, with no Markdown file
\* anywhere beneath it when the run starts never gets an index.md and is never
\* offered for, or appended to, the navigation buffer.
C1_NoIndexWithoutMarkdownRootIncluded ==
    \A p \in DirsOf(fsStart) :
        ~HasMdBeneath(fsStart, p) =>
            /\ ~isfile(fs, p \o <<IndexMd>>)
            /\ Len(p) = 1 => (~PromptedDir(p[1]) /\ ~InBuffer(p[1]))

\* C1 amended: a directory other than the wiki root with no Markdown file
\* anywhere beneath it when the run starts never gets an index.md and is never
\* offered for, or appended to, the navigation buffer.
C1_NoIndexWithoutMarkdown ==
    \A p \in DirsOf(fsStart) \ {<<>>} :
        ~HasMdBeneath(fsStart, p) =>
            /\ ~isfile(fs, p \o <<IndexMd>>)
            /\ Len(p) = 1 => (~PromptedDir(p[1]) /\ ~InBuffer(p[1]))

\* a finished walk that indexed beta and passed by empty/, which holds x.txt only
C1_Witness ==
    /\ pc = "done"
    /\ WalkRan
    /\ isfile(fsStart, <<Empty, X_txt>>)
    /\ <<Beta, IndexMd>> \in GeneratedIndexes
    /\ ~isfile(fs, <<Empty, IndexMd>>)

----------------------------------------------------------------------------
(* C2 *)

\* C2: when main() has run to completion, index.md exists in the wiki root and
\* in every subdirectory that recursively contains a Markdown file (stated
\* here for trees all of whose directories are readable).
C2_IndexEverywhere ==
    (pc = "done" /\ unreadable = {}) =>
        /\ isfile(fs, <<IndexMd>>)
        /\ \A p \in DirsOf(fs) \ {<<>>} :
              HasMdBeneath(fs, p) => isfile(fs, p \o <<IndexMd>>)

----------------------------------------------------------------------------
(* C3 *)

----------------------------------------------------------------------------
(* C4 *)

\* the depth-1 wiki directories and the root Markdown files outside the
\* ignore lists, each in the filesystem's enumeration order
CandidateDirs ==
    SelectSeq(listdir(fsStart, <<>>),
              LAMBDA d : isdir(fsStart, <<d>>) /\ is_md_dir(fsStart, <<d>>, TRUE))

CandidateFiles ==
    SelectSeq(listdir(fsStart, <<>>),
              LAMBDA f : /\ isfile(fsStart, <<f>>)
                         /\ StrEndsWith(f, DotMd)
                         /\ f \notin (included_md_files \cup mdwiki_filenames))

EntryTargets(doc) ==
    LET es == SelectSeq(doc, LAMBDA l : l.kind \notin {"h1", "gimmick:Theme", "gimmick:ThemeChooser"})
    IN  [i \in 1..Len(es) |-> es[i].target]

\* C4: the entry lines of a navigation.md written by main() are the accepted
\* depth-1 wiki directories in enumeration order, then the accepted root
\* Markdown files in enumeration order; every candidate was offered once, in
\* that order, and a declined one has no entry.
C4_NavigationEntries ==
    (isfile(fs, <<NavigationMd>>) /\ WalkRan) =>
        LET ds == SelectSeq(CandidateDirs, LAMBDA d : Accepted("dir", d))
            fl == SelectSeq(CandidateFiles, LAMBDA f : Accepted("file", f))
        IN  /\ EntryTargets(fs[<<NavigationMd>>].content)
                 = [i \in 1..Len(ds) |-> ds[i] \o SlashIndexMd] \o fl
            /\ [i \in 1..Len(prompts) |-> prompts[i].name] = CandidateDirs \o CandidateFiles

\* beta enumerated before alpha and both accepted, a.md declined
C4_Witness ==
    /\ pc = "done"
    /\ WalkRan
    /\ EntryTargets(fs[<<NavigationMd>>].content)
         = <<Beta \o SlashIndexMd, Alpha \o SlashIndexMd>>
    /\ \E i \in DOMAIN prompts : prompts[i].name = A_md /\ ~prompts[i].answer

----------------------------------------------------------------------------
(* C5 *)

\* C5: a failed download does not abort the run.
C5_DownloadFailureRecovered == dlFailed => pc # "aborted"

----------------------------------------------------------------------------
(* C6 *)

\* C6: no index.md generated by a run lists README.md, navigation.md or
\* index.md as a Page, and no file of those names is offered for navigation.
C6_IgnoreSetExcluded ==
    /\ \A p \in GeneratedIndexes : \A i \in DOMAIN fs[p].content :
          fs[p].content[i].target \notin included_md_files
    /\ \A i \in DOMAIN prompts :
          prompts[i].kind = "file" => prompts[i].name \notin included_md_files

----------------------------------------------------------------------------
(* C7 *)

\* the raw directory name of a Category link
CategoryName(target) == SubSeq(target, 1, Len(target) - Len(SlashIndexMd))

IsCategory(l) == l.kind = "item" /\ \E i \in DOMAIN l.target : l.target[i] = 47
IsPage(l) == l.kind = "item" /\ ~IsCategory(l)

\* the ignore list main() passes for the directory dir
IgnoreAt(dir) == IF dir = <<>> THEN included_md_files ELSE {}

IndexShape(doc, dir) ==
    LET cats == {i \in DOMAIN doc : IsCategory(doc[i])}
        pages == {i \in DOMAIN doc : IsPage(doc[i])}
        heads == {i \in DOMAIN doc : doc[i].kind = "h2"}
        both == cats # {} /\ pages # {}
    IN  /\ doc[1].kind = "h1"
        /\ DOMAIN doc = {1} \cup cats \cup pages \cup heads
        /\ \A i \in cats, j \in pages : i < j
        /\ \A i \in cats, j \in cats :
              i < j => StrLess(CategoryName(doc[i].target), CategoryName(doc[j].target))
        /\ \A i \in pages, j \in pages : i < j => StrLess(doc[i].target, doc[j].target)
        /\ {CategoryName(doc[i].target) : i \in cats}
             = {d \in {q[Len(q)] : q \in DOMAIN fsStart \ {<<>>}} :
                  /\ isdir(fsStart, dir \o <<d>>)
                  /\ is_md_dir(fsStart, dir \o <<d>>, TRUE)
                  /\ d \notin IgnoreAt(dir)}
        /\ {doc[i].target : i \in pages}
             = {f \in {q[Len(q)] : q \in DOMAIN fsStart \ {<<>>}} :
                  /\ isfile(fsStart, dir \o <<f>>)
                  /\ StrEndsWith(f, DotMd)
                  /\ f \notin IgnoreAt(dir)}
        /\ IF both
           THEN /\ heads = {2, 3 + Cardinality(cats)}
                /\ doc[2].text = CategoriesH
                /\ doc[3 + Cardinality(cats)].text = PagesH
           ELSE heads = {}

\* C7: every index.md written has the title heading, then all Category links
\* in ascending order of raw directory name, then all Page links in ascending
\* order of file name, with the two subheadings present exactly when both
\* groups are non-empty.
C7_IndexShape == \A p \in GeneratedIndexes : IndexShape(fs[p].content, Parent(p))

\* the root index over beta and alpha, enumerated in that order, and a.md
C7_Witness ==
    /\ enumOrder = Enumeration
    /\ <<IndexMd>> \in GeneratedIndexes
    /\ fs[<<IndexMd>>].content =
         <<Line("h1", wiki_title, <<>>),
           Line("h2", CategoriesH, <<>>),
           Line("item", <<65, 108, 112, 104, 97>>, Alpha \o SlashIndexMd),
           Line("item", <<66, 101, 116, 97>>, Beta \o SlashIndexMd),
           Line("h2", PagesH, <<>>),
           Line("item", <<65>>, A_md)>>

----------------------------------------------------------------------------
(* C8 *)

\* title-casing by whitespace-delimited words: the first letter of a word is
\* capitalized, every other letter lower-cased
RECURSIVE WordTitleFrom(_, _, _)
WordTitleFrom(s, i, seenLetter) ==
    IF i > Len(s) THEN <<>>
    ELSE IF s[i] = 32 THEN <<32>> \o WordTitleFrom(s, i + 1, FALSE)
    ELSE <<IF ~IsCased(s[i]) THEN s[i]
           ELSE IF seenLetter THEN ToLower(s[i]) ELSE ToUpper(s[i])>>
         \o WordTitleFrom(s, i + 1, seenLetter \/ IsCased(s[i]))

WordTitle(s) == WordTitleFrom(s, 1, FALSE)

\* names joined by slashes: no empty name, so no slash first, last or doubled
IsRelativePath(s) ==
    /\ s # <<>>
    /\ s[1] # 47 /\ s[Len(s)] # 47
    /\ \A i \in 1..(Len(s) - 1) : ~(s[i] = 47 /\ s[i + 1] = 47)

\* C8: titlify(name) is the name with underscores replaced by spaces and then
\* title-cased word by word (so it holds no underscore and is empty for the
\* empty name), and the title create_index uses when none is given is titlify
\* of the base name of the directory.
C8_Titlify ==
    /\ (pc = "titlified" /\ \A i \in DOMAIN fnArg : fnArg[i] # 47) =>
          /\ fnOut = WordTitle(StrReplace(fnArg, 95, 32))
          /\ \A i \in DOMAIN fnOut : fnOut[i] # 95
          /\ fnArg = <<>> => fnOut = <<>>
    /\ (pc = "titled" /\ IsRelativePath(fnArg)) => fnOut = titlify(BaseName(fnArg))

----------------------------------------------------------------------------
(* C9 *)

\* C9 as stated: the index.md of a depth-1 directory is there by the time the
\* operator is asked about the directory.
C9_IndexBeforePrompt ==
    \A i \in DOMAIN prompts :
        prompts[i].kind = "dir" => isfile(fs, <<prompts[i].name, IndexMd>>)

\* C9 amended: a depth-1 directory is found to be a wiki directory before the
\* operator is asked about it, and its index.md is generated, when absent,
\* only after the operator has been asked and any entry for it appended.
C9_PromptBeforeIndex ==
    /\ \A i \in DOMAIN prompts :
          prompts[i].kind = "dir" => HasMdBeneath(fsStart, <<prompts[i].name>>)
    /\ \A p \in GeneratedIndexes :
          Len(p) = 2 =>
              /\ PromptedDir(p[1])
              /\ Accepted("dir", p[1]) => (InBuffer(p[1]) \/ pc = "done")

\* beta's index.md has just been generated, after its entry was appended
C9_Witness ==
    /\ pc = "walk"
    /\ <<Beta, IndexMd>> \in GeneratedIndexes
    /\ InBuffer(Beta)

----------------------------------------------------------------------------
(* C10 *)

\* C10: a run whose tree holds an unreadable directory with Markdown files in
\* it does not walk the tree to completion.
C10_ReadErrorAborts ==
    (pc = "done" /\ WalkRan) => \A p \in unreadable : ~HasMdBeneath(fsStart, p)

====
